---- MODULE Spec2Model ----
(***************************************************************************)
(* Model of the gamma-spectra denoising harness: the trainer (train.py,   *)
(* main) and the denoiser (denoise.py, main).  Each script is one          *)
(* sequential process; its program counter walks the statements of main.  *)
(* The two scripts communicate only through the files of the model        *)
(* directory (the weights *.pt and their sibling metadata *.npy).         *)
(*                                                                         *)
(* The network (model.py), the data loader (load_data.py) and the         *)
(* libraries (numpy, torch, sklearn, skimage) are outside the repository  *)
(* sources modelled here.  The network is a black box: its weights are    *)
(* abstracted to the value it outputs with them (see Forward).            *)
(***************************************************************************)
EXTENDS Integers, Sequences, FiniteSets, TLC

(***************************************************************************)
(* Floating point values.  A float is a record [k, n, d]:                  *)
(*   k = "fin": the rational n/d, d > 0, in lowest terms;                  *)
(*   k = "inf": +infinity (n = 1) or -infinity (n = -1);                   *)
(*   k = "nan": not a number.                                             *)
(* The arithmetic is IEEE's on these values, without rounding.            *)
(***************************************************************************)
Abs(i) ==
    IF i < 0 THEN -i ELSE i

RECURSIVE Gcd(_, _)
Gcd(a, b) ==
    IF b = 0 THEN a ELSE Gcd(b, a % b)

NaN ==
    [k |-> "nan", n |-> 0, d |-> 1]

Inf(s) ==
    [k |-> "inf", n |-> s, d |-> 1]

Fin(n, d) ==
    LET g == Gcd(Abs(n), d)
    IN  [k |-> "fin", n |-> n \div g, d |-> d \div g]

FInt(i) ==
    [k |-> "fin", n |-> i, d |-> 1]

IsFinite(a) ==
    a.k = "fin"

Sign(i) ==
    IF i < 0 THEN -1 ELSE IF i = 0 THEN 0 ELSE 1

FNeg(a) ==
    IF a.k = "nan" THEN NaN ELSE [a EXCEPT !.n = -a.n]

FAdd(a, b) ==
    CASE a.k = "nan" \/ b.k = "nan" -> NaN
      [] a.k = "inf" /\ b.k = "inf" -> IF a.n = b.n THEN a ELSE NaN
      [] a.k = "inf" -> a
      [] b.k = "inf" -> b
      [] OTHER -> Fin(a.n * b.d + b.n * a.d, a.d * b.d)

FSub(a, b) ==
    FAdd(a, FNeg(b))

FMul(a, b) ==
    CASE a.k = "nan" \/ b.k = "nan" -> NaN
      [] a.k = "inf" \/ b.k = "inf" ->
            IF Sign(a.n) * Sign(b.n) = 0 THEN NaN ELSE Inf(Sign(a.n) * Sign(b.n))
      [] OTHER -> Fin(a.n * b.n, a.d * b.d)

\* a / m for an integer m > 0 (a batch size, a number of batches)
FDivInt(a, m) ==
    IF a.k = "fin" THEN Fin(a.n, a.d * m) ELSE a

\* a < b as Python compares floats: every comparison with NaN is False
FLt(a, b) ==
    CASE a.k = "nan" \/ b.k = "nan" -> FALSE
      [] a.k = "inf" /\ b.k = "inf" -> a.n < b.n
      [] a.k = "inf" -> a.n < 0
      [] b.k = "inf" -> b.n > 0
      [] OTHER ->
            IF a.n \div a.d # b.n \div b.d
            THEN a.n \div a.d < b.n \div b.d
            ELSE (a.n % a.d) * b.d < (b.n % b.d) * a.d

RECURSIVE FSum(_)
FSum(s) ==
    IF s = <<>> THEN FInt(0) ELSE FAdd(Head(s), FSum(Tail(s)))

RECURSIVE Flatten(_)
Flatten(t) ==
    IF t = <<>> THEN <<>> ELSE Head(t) \o Flatten(Tail(t))

RECURSIVE IntSum(_)
IntSum(s) ==
    IF s = <<>> THEN 0 ELSE Head(s) + IntSum(Tail(s))


(***************************************************************************)
(* Tensors.  A batch of signals is a sequence of examples, an example a   *)
(* sequence of NumFeatures elements (the channel axis of size 1 added by  *)
(* expand_dims is left out).  Raw data elements are integers.             *)
(***************************************************************************)
\* bounds of the model
NumExamples ==
    3

NumFeatures ==
    2

TrainBatchSize ==
    2

DenoiseBatchSize ==
    1

MaxEpochs ==
    3

MaxPatience ==
    1

MaxSeed ==
    1

PipelineEpochs ==
    1

Shape(t) ==
    <<Len(t), IF t = <<>> THEN 0 ELSE Len(t[1])>>

ToFloat(t) ==
    [i \in 1..Len(t) |-> [j \in 1..Len(t[i]) |-> FInt(t[i][j])]]

\* elementwise a - b of two float tensors of one shape
TSub(a, b) ==
    [i \in 1..Len(a) |-> [j \in 1..Len(a[i]) |-> FSub(a[i][j], b[i][j])]]

Select(t, idx) ==
    [i \in 1..Len(idx) |-> t[idx[i]]]

Min(a, b) ==
    IF a < b THEN a ELSE b

\* number of batches a DataLoader cuts n examples into
NumBatches(n, bs) ==
    (n + bs - 1) \div bs

\* the b-th batch (b = 1, 2, ...) of a DataLoader without shuffling
Batch(t, b, bs) ==
    SubSeq(t, (b - 1) * bs + 1, Min(b * bs, Len(t)))

(***************************************************************************)
(* The datasets load_data can return.  "ramp" has varying inputs, "flat"  *)
(* has all inputs equal, "mismatch" has clean signals of another length.  *)
(***************************************************************************)
DataKinds ==
    {"ramp", "flat", "mismatch"}

LoadData(kind) ==
    LET n == NumExamples
        L == NumFeatures
    IN  CASE kind = "ramp" ->
               [noisy |-> [i \in 1..n |-> [j \in 1..L |-> (i + j) % 3]],
                clean |-> [i \in 1..n |-> [j \in 1..L |-> i % 2]]]
          [] kind = "flat" ->
               [noisy |-> [i \in 1..n |-> [j \in 1..L |-> 1]],
                clean |-> [i \in 1..n |-> [j \in 1..L |-> 0]]]
          [] OTHER ->
               [noisy |-> [i \in 1..n |-> [j \in 1..L |-> (i + j) % 3]],
                clean |-> [i \in 1..n |-> [j \in 1..(L + 1) |-> i % 2]]]

(***************************************************************************)
(* Splitter: sklearn's train_test_split(noisy, clean, test_size = 0.1,    *)
(* random_state = seed).  The shuffle is a permutation of the indices     *)
(* that depends on the seed and the number of examples only; it is        *)
(* modelled by the rotation by seed.  The first ceil(0.1 n) indices of    *)
(* the permutation are the validation part, the rest the training part.  *)
(***************************************************************************)
Permutation(seed, n) ==
    [i \in 1..n |-> ((i - 1 + seed) % n) + 1]

TrainTestSplit(n, seed) ==
    LET n_test == (n + 9) \div 10
        perm == Permutation(seed, n)
    IN  [val |-> SubSeq(perm, 1, n_test), train |-> SubSeq(perm, n_test + 1, n)]

(***************************************************************************)
(* Standardizer.  np.mean and np.std over all elements of the training    *)
(* inputs: the mean is the rational sum/count; the standard deviation is  *)
(* the square root of the rational variance and is kept as [sqrt |-> v].  *)
(* A standardized element (x - mean)/std is kept as the quotient          *)
(* [num |-> x - mean, den |-> std]: numpy and torch divide by 0 without   *)
(* raising, giving nan (0/0) or +-inf.                                     *)
(***************************************************************************)
Mean(t) ==
    LET xs == Flatten(t)
    IN  Fin(IntSum(xs), Len(xs))

Std(t) ==
    LET xs == Flatten(t)
        sq == [i \in 1..Len(xs) |-> xs[i] * xs[i]]
        c == Len(xs)
    IN  [sqrt |-> Fin(c * IntSum(sq) - IntSum(xs) * IntSum(xs), c * c)]

Standardize(t, mean, std) ==
    [i \in 1..Len(t) |->
        [j \in 1..Len(t[i]) |-> [num |-> FSub(FInt(t[i][j]), mean), den |-> std]]]

StdIsZero(std) ==
    std.sqrt = FInt(0)

(***************************************************************************)
(* Model Adapter.  The weights of the network are abstracted to the       *)
(* value the network outputs with them; the output has the shape of the  *)
(* input.  The optimizer step replaces the weights by any element of      *)
(* Weights.                                                                *)
(***************************************************************************)
Weights ==
    {FInt(0), FInt(1), FInt(448), NaN}

Forward(w, x) ==
    [i \in 1..Len(x) |-> [j \in 1..Len(x[i]) |-> w]]

\* criterion(preds, clean)/(2*len(noisy)): MSELoss(reduction='sum') is the
\* sum of the squared differences over all elements
Loss(preds, clean) ==
    LET diff == Flatten(TSub(preds, ToFloat(clean)))
        sq == [i \in 1..Len(diff) |-> FMul(diff[i], diff[i])]
    IN  FDivInt(FSum(sq), 2 * Len(preds))

(***************************************************************************)
(* Metric Evaluator.  skimage's psnr(clean, denoised, data_range = 1) is  *)
(* 10 log10(1/mse) with mse the mean squared error of the example.  A     *)
(* PSNR quantity is kept as a sequence of terms [mse, w] standing for     *)
(* the sum of w * 10 log10(1/mse): adding is concatenation, dividing     *)
(* scales every weight.                                                   *)
(***************************************************************************)
Psnr(clean, denoised) ==
    LET sq == [j \in 1..Len(clean) |->
                  FMul(FSub(clean[j], denoised[j]), FSub(clean[j], denoised[j]))]
    IN  <<[mse |-> FDivInt(FSum(sq), Len(clean)), w |-> FInt(1)]>>

PZero ==
    <<>>

PAdd(p, q) ==
    p \o q

PDivInt(p, m) ==
    [i \in 1..Len(p) |-> [p[i] EXCEPT !.w = FDivInt(@, m)]]

RECURSIVE PsnrSum(_, _, _)
PsnrSum(clean_imgs, denoised_imgs, i) ==
    IF i > Len(clean_imgs) THEN PZero
    ELSE PAdd(Psnr(clean_imgs[i], denoised_imgs[i]), PsnrSum(clean_imgs, denoised_imgs, i + 1))

psnr_of_batch(clean_imgs, denoised_imgs) ==
    PDivInt(PsnrSum(clean_imgs, denoised_imgs, 1), Len(clean_imgs))

(***************************************************************************)
(* State.  The variables of train.py's main keep their names; the        *)
(* variables of denoise.py's main are prefixed with d_.  disk is the      *)
(* model directory: each file is <<>> (absent) or <<content>>.            *)
(***************************************************************************)
VARIABLES
    pc,                         \* position of train.py's main
    args,                       \* its command line
    data,                       \* noisy_spectra, clean_spectra as loaded
    split,                      \* the index partition train_test_split drew
    x_train, x_val, y_train, y_val,
    train_mean, train_std,
    weights,                    \* model.state_dict()
    scheduler,                  \* ReduceLROnPlateau: best, num_bad_epochs, reductions
    history,
    best_val_loss, epochs_since_improvement,
    epoch,                      \* the loop variable of the main training loop
    batch,                      \* the next batch of the running loader
    epoch_train_loss, epoch_val_loss, epoch_psnr,
    error,                      \* the exception that ended main, or "none"
    disk,
    d_pc,                       \* position of denoise.py's main
    d_args,                     \* its command line; seed is <<>> (None) or <<s>>
    d_test_data,                \* noisy_spectra, clean_spectra as loaded
    d_params,                   \* the 'model' part of the loaded metadata
    d_split,                    \* the index partition train_test_split drew
    d_val_dataset,              \* the examples to denoise: [x |-> noisy, y |-> clean]
    d_weights,                  \* the loaded state_dict
    d_num,                      \* batches of val_loader consumed
    d_fed,                      \* the inputs handed to the model, batch by batch
    d_preds,                    \* the outputs of the model, batch by batch
    denoised,
    total_psnr_noisy, total_psnr_denoised,
    avg_psnr_noisy, avg_psnr_denoised,
    d_saved,                    \* the datasets handed to save_dataset
    d_error,                    \* the exception that ended main, or "none"
    d_status                    \* main's return value, -1 while it runs

tvars ==
    <<pc, args, data, split, x_train, x_val, y_train, y_val, train_mean, train_std,
      weights, scheduler, history, best_val_loss, epochs_since_improvement, epoch,
      batch, epoch_train_loss, epoch_val_loss, epoch_psnr, error>>

dvars ==
    <<d_pc, d_args, d_test_data, d_params, d_split, d_val_dataset, d_weights, d_num,
      d_fed, d_preds, denoised, total_psnr_noisy, total_psnr_denoised,
      avg_psnr_noisy, avg_psnr_denoised, d_saved, d_error, d_status>>

\* best_val_loss = 99999
BestValLossInit ==
    99999

NoFile ==
    <<>>

EmptyDisk ==
    [model_npy |-> NoFile, best_pt |-> NoFile, best_npy |-> NoFile,
     final_pt |-> NoFile, final_npy |-> NoFile]

\* the command lines of train.py the model runs
TrainArgs ==
    [seed : 0..MaxSeed, patience : 0..MaxPatience, epochs : 0..MaxEpochs,
     batch_size : {TrainBatchSize}, det_type : DataKinds,
     num_layers : {20}, num_filters : {64}, filter_size : {3}, stride : {1}]

TInit ==
    /\ pc = "load"
    /\ args \in TrainArgs
    /\ data = [noisy |-> <<>>, clean |-> <<>>]
    /\ split = [val |-> <<>>, train |-> <<>>]
    /\ x_train = <<>> /\ x_val = <<>> /\ y_train = <<>> /\ y_val = <<>>
    /\ train_mean = NaN
    /\ train_std = [sqrt |-> NaN]
    /\ weights = NaN
    /\ scheduler = [best |-> Inf(1), num_bad_epochs |-> 0, reductions |-> 0]
    /\ history = [model |-> [unset |-> TRUE], train |-> <<>>, val |-> <<>>, psnr |-> <<>>]
    /\ best_val_loss = NaN
    /\ epochs_since_improvement = 0
    /\ epoch = 0
    /\ batch = 1
    /\ epoch_train_loss = FInt(0)
    /\ epoch_val_loss = FInt(0)
    /\ epoch_psnr = PZero
    /\ error = "none"

(***************************************************************************)
(* train.py, main.                                                         *)
(***************************************************************************)
\* lines 72-79: load the dataset, assert the shapes agree
T_LoadData ==
    /\ pc = "load"
    /\ LET loaded == LoadData(args.det_type)
       IN  /\ data' = loaded
           /\ IF Shape(loaded.noisy) = Shape(loaded.clean)
              THEN pc' = "split" /\ error' = error
              ELSE pc' = "failed" /\ error' = "AssertionError"
    /\ UNCHANGED <<args, split, x_train, x_val, y_train, y_val, train_mean, train_std,
                   weights, scheduler, history, best_val_loss, epochs_since_improvement,
                   epoch, batch, epoch_train_loss, epoch_val_loss, epoch_psnr, disk>>
    /\ UNCHANGED dvars

\* lines 82-86: seed the generators, split into train and validation sets
T_Split ==
    /\ pc = "split"
    /\ LET s == TrainTestSplit(Len(data.noisy), args.seed)
       IN  /\ split' = s
           /\ x_train' = Select(data.noisy, s.train)
           /\ x_val' = Select(data.noisy, s.val)
           /\ y_train' = Select(data.clean, s.train)
           /\ y_val' = Select(data.clean, s.val)
    /\ pc' = "fit"
    /\ UNCHANGED <<args, data, train_mean, train_std, weights, scheduler, history,
                   best_val_loss, epochs_since_improvement, epoch, batch,
                   epoch_train_loss, epoch_val_loss, epoch_psnr, error, disk>>
    /\ UNCHANGED dvars

\* the parameters fitted on the whole dataset instead of the training set
T_Fit_WholeData ==
    /\ pc = "fit"
    /\ train_mean' = Mean(data.noisy)
    /\ train_std' = Std(data.noisy)
    /\ pc' = "standardize"
    /\ UNCHANGED <<args, data, split, x_train, x_val, y_train, y_val, weights, scheduler,
                   history, best_val_loss, epochs_since_improvement, epoch, batch,
                   epoch_train_loss, epoch_val_loss, epoch_psnr, error, disk>>
    /\ UNCHANGED dvars

\* lines 90-91: standardization parameters from the training set
T_Fit ==
    /\ pc = "fit"
    /\ train_mean' = Mean(x_train)
    /\ train_std' = Std(x_train)
    /\ pc' = "standardize"
    /\ UNCHANGED <<args, data, split, x_train, x_val, y_train, y_val, weights, scheduler,
                   history, best_val_loss, epochs_since_improvement, epoch, batch,
                   epoch_train_loss, epoch_val_loss, epoch_psnr, error, disk>>
    /\ UNCHANGED dvars

\* lines 94-95: apply them to the training and validation sets
T_Standardize ==
    /\ pc = "standardize"
    /\ x_train' = Standardize(x_train, train_mean, train_std)
    /\ x_val' = Standardize(x_val, train_mean, train_std)
    /\ pc' = "create"
    /\ UNCHANGED <<args, data, split, y_train, y_val, train_mean, train_std, weights,
                   scheduler, history, best_val_loss, epochs_since_improvement, epoch,
                   batch, epoch_train_loss, epoch_val_loss, epoch_psnr, error, disk>>
    /\ UNCHANGED dvars

\* lines 113-122: the model with its initial weights, the loss, the optimizer
T_CreateModel ==
    /\ pc = "create"
    /\ weights' \in Weights
    /\ pc' = "save_params"
    /\ UNCHANGED <<args, data, split, x_train, x_val, y_train, y_val, train_mean,
                   train_std, scheduler, history, best_val_loss,
                   epochs_since_improvement, epoch, batch, epoch_train_loss,
                   epoch_val_loss, epoch_psnr, error, disk>>
    /\ UNCHANGED dvars

\* lines 125-128: the 'model' part of every metadata artifact
model_params(a, mean, std) ==
    [num_channels |-> 1, num_layers |-> a.num_layers,
     kernel_size |-> a.filter_size, stride |-> a.stride,
     num_filters |-> a.num_filters,
     train_mean |-> mean, train_std |-> std]

\* lines 125-132: write model.npy
T_SaveParams ==
    /\ pc = "save_params"
    /\ history' = [model |-> model_params(args, train_mean, train_std),
                   train |-> <<>>, val |-> <<>>, psnr |-> <<>>]
    /\ disk' = [disk EXCEPT !.model_npy = <<history'>>]
    /\ pc' = "init_loop"
    /\ UNCHANGED <<args, data, split, x_train, x_val, y_train, y_val, train_mean,
                   train_std, weights, scheduler, best_val_loss,
                   epochs_since_improvement, epoch, batch, epoch_train_loss,
                   epoch_val_loss, epoch_psnr, error>>
    /\ UNCHANGED dvars

\* lines 137-144: the scheduler and the early stopping state
T_InitLoop ==
    /\ pc = "init_loop"
    /\ scheduler' = [best |-> Inf(1), num_bad_epochs |-> 0, reductions |-> 0]
    /\ best_val_loss' = FInt(BestValLossInit)
    /\ epochs_since_improvement' = 0
    /\ epoch' = 0
    /\ pc' = "epoch"
    /\ UNCHANGED <<args, data, split, x_train, x_val, y_train, y_val, train_mean,
                   train_std, weights, history, batch, epoch_train_loss,
                   epoch_val_loss, epoch_psnr, error, disk>>
    /\ UNCHANGED dvars

\* len(train_loader), len(val_loader)
TrainBatches ==
    NumBatches(Len(x_train), args.batch_size)

ValBatches ==
    NumBatches(Len(x_val), args.batch_size)

\* lines 147-151: the loop header; the loop ends when range(args.epochs) is used up
T_EpochStart ==
    /\ pc = "epoch"
    /\ IF epoch < args.epochs
       THEN /\ epoch_train_loss' = FInt(0)
            /\ batch' = 1
            /\ pc' = "train_batch"
       ELSE /\ pc' = "final"
            /\ UNCHANGED <<epoch_train_loss, batch>>
    /\ UNCHANGED <<args, data, split, x_train, x_val, y_train, y_val, train_mean,
                   train_std, weights, scheduler, history, best_val_loss,
                   epochs_since_improvement, epoch, epoch_val_loss, epoch_psnr,
                   error, disk>>
    /\ UNCHANGED dvars

\* lines 154-170: one training batch: predictions, loss, backprop, optimizer step.
\* The loader's shuffle permutes the examples of the epoch; the loss of a batch
\* is a sum over its examples and the batches are taken in order here.
T_TrainBatch ==
    /\ pc = "train_batch"
    /\ batch <= TrainBatches
    /\ LET noisy_spectra == Batch(x_train, batch, args.batch_size)
           clean_spectra == Batch(y_train, batch, args.batch_size)
           preds == Forward(weights, noisy_spectra)
           loss == Loss(preds, clean_spectra)
       IN  epoch_train_loss' = FAdd(epoch_train_loss, loss)
    /\ weights' \in Weights
    /\ batch' = batch + 1
    /\ UNCHANGED <<pc, args, data, split, x_train, x_val, y_train, y_val, train_mean,
                   train_std, scheduler, history, best_val_loss,
                   epochs_since_improvement, epoch, epoch_val_loss, epoch_psnr,
                   error, disk>>
    /\ UNCHANGED dvars

\* lines 173-176: the training loader is used up; start the evaluation
T_StartValidation ==
    /\ pc = "train_batch"
    /\ batch > TrainBatches
    /\ epoch_val_loss' = FInt(0)
    /\ epoch_psnr' = PZero
    /\ batch' = 1
    /\ pc' = "val_batch"
    /\ UNCHANGED <<args, data, split, x_train, x_val, y_train, y_val, train_mean,
                   train_std, weights, scheduler, history, best_val_loss,
                   epochs_since_improvement, epoch, epoch_train_loss, error, disk>>
    /\ UNCHANGED dvars

\* lines 178-192: one validation batch: predictions, loss, PSNR of the predictions
T_ValBatch ==
    /\ pc = "val_batch"
    /\ batch <= ValBatches
    /\ LET noisy_spectra == Batch(x_val, batch, args.batch_size)
           clean_spectra == Batch(y_val, batch, args.batch_size)
           preds == Forward(weights, noisy_spectra)
           val_loss == Loss(preds, clean_spectra)
       IN  /\ epoch_val_loss' = FAdd(epoch_val_loss, val_loss)
           /\ epoch_psnr' = PAdd(epoch_psnr, psnr_of_batch(ToFloat(clean_spectra), preds))
    /\ batch' = batch + 1
    /\ UNCHANGED <<pc, args, data, split, x_train, x_val, y_train, y_val, train_mean,
                   train_std, weights, scheduler, history, best_val_loss,
                   epochs_since_improvement, epoch, epoch_train_loss, error, disk>>
    /\ UNCHANGED dvars

\* lines 195-197: the epoch's means over the batches
T_EpochSummary ==
    /\ pc = "val_batch"
    /\ batch > ValBatches
    /\ epoch_train_loss' = FDivInt(epoch_train_loss, TrainBatches)
    /\ epoch_val_loss' = FDivInt(epoch_val_loss, ValBatches)
    /\ epoch_psnr' = PDivInt(epoch_psnr, ValBatches)
    /\ pc' = "scheduler"
    /\ UNCHANGED <<args, data, split, x_train, x_val, y_train, y_val, train_mean,
                   train_std, weights, scheduler, history, best_val_loss,
                   epochs_since_improvement, epoch, batch, error, disk>>
    /\ UNCHANGED dvars

\* torch's ReduceLROnPlateau(optimizer, 'min', patience = args.patience//2).step:
\* relative threshold 1e-4 (metrics < best * (1 - 1e-4), stated here as
\* best/10000 < best - metrics), factor 0.1, no cooldown; reductions counts
\* the reductions of the learning rate
SchedulerStep(s, metrics, patience) ==
    LET better == IF IsFinite(s.best)
                  THEN FLt(FDivInt(s.best, 10000), FSub(s.best, metrics))
                  ELSE FLt(metrics, s.best)
        best == IF better THEN metrics ELSE s.best
        bad == IF better THEN 0 ELSE s.num_bad_epochs + 1
    IN  IF bad > patience
        THEN [best |-> best, num_bad_epochs |-> 0, reductions |-> s.reductions + 1]
        ELSE [best |-> best, num_bad_epochs |-> bad, reductions |-> s.reductions]

\* line 200: reduce the learning rate if validation has leveled off
T_SchedulerStep ==
    /\ pc = "scheduler"
    /\ scheduler' = SchedulerStep(scheduler, epoch_val_loss, args.patience \div 2)
    /\ pc' = "append"
    /\ UNCHANGED <<args, data, split, x_train, x_val, y_train, y_val, train_mean,
                   train_std, weights, history, best_val_loss,
                   epochs_since_improvement, epoch, batch, epoch_train_loss,
                   epoch_val_loss, epoch_psnr, error, disk>>
    /\ UNCHANGED dvars

\* the epoch stats kept as the only record in place of lines 206-208
T_AppendHistory_Replace ==
    /\ pc = "append"
    /\ history' = [history EXCEPT !.train = <<epoch_train_loss>>,
                                  !.val = <<epoch_val_loss>>,
                                  !.psnr = <<epoch_psnr>>]
    /\ pc' = "save_best"
    /\ UNCHANGED <<args, data, split, x_train, x_val, y_train, y_val, train_mean,
                   train_std, weights, scheduler, best_val_loss,
                   epochs_since_improvement, epoch, batch, epoch_train_loss,
                   epoch_val_loss, epoch_psnr, error, disk>>
    /\ UNCHANGED dvars

\* lines 206-208: save epoch stats
T_AppendHistory ==
    /\ pc = "append"
    /\ history' = [history EXCEPT !.train = Append(@, epoch_train_loss),
                                  !.val = Append(@, epoch_val_loss),
                                  !.psnr = Append(@, epoch_psnr)]
    /\ pc' = "save_best"
    /\ UNCHANGED <<args, data, split, x_train, x_val, y_train, y_val, train_mean,
                   train_std, weights, scheduler, best_val_loss,
                   epochs_since_improvement, epoch, batch, epoch_train_loss,
                   epoch_val_loss, epoch_psnr, error, disk>>
    /\ UNCHANGED dvars

\* the comparison of line 220 with <= in place of <
IsBest_OrEqual(val_loss, best) ==
    FLt(val_loss, best) \/ val_loss = best

\* line 220: if epoch_val_loss < best_val_loss
IsBest(val_loss, best) ==
    FLt(val_loss, best)

\* lines 220-227: save if best model
T_SaveIfBest ==
    /\ pc = "save_best"
    /\ IF IsBest(epoch_val_loss, best_val_loss)
       THEN /\ best_val_loss' = epoch_val_loss
            /\ epochs_since_improvement' = 0
            /\ disk' = [disk EXCEPT !.best_pt = <<weights>>, !.best_npy = <<history>>]
       ELSE /\ epochs_since_improvement' = epochs_since_improvement + 1
            /\ UNCHANGED <<best_val_loss, disk>>
    /\ pc' = "early_stop"
    /\ UNCHANGED <<args, data, split, x_train, x_val, y_train, y_val, train_mean,
                   train_std, weights, scheduler, history, epoch, batch,
                   epoch_train_loss, epoch_val_loss, epoch_psnr, error>>
    /\ UNCHANGED dvars

\* the test of line 229 never taken
StopEarly_Never(since, patience) ==
    since > patience /\ since < 0

\* the comparison of line 229 with >= in place of >
StopEarly_AtPatience(since, patience) ==
    since >= patience

\* line 229: if epochs_since_improvement > args.patience
StopEarly(since, patience) ==
    since > patience

\* the break of line 231 taken as a return: the run ends without lines 243-248
T_EarlyStop_Return ==
    /\ pc = "early_stop"
    /\ IF StopEarly(epochs_since_improvement, args.patience)
       THEN pc' = "done" /\ epoch' = epoch
       ELSE pc' = "epoch" /\ epoch' = epoch + 1
    /\ UNCHANGED <<args, data, split, x_train, x_val, y_train, y_val, train_mean,
                   train_std, weights, scheduler, history, best_val_loss,
                   epochs_since_improvement, batch, epoch_train_loss, epoch_val_loss,
                   epoch_psnr, error, disk>>
    /\ UNCHANGED dvars

\* lines 229-231 and the loop's next iteration
T_EarlyStop ==
    /\ pc = "early_stop"
    /\ IF StopEarly(epochs_since_improvement, args.patience)
       THEN pc' = "final" /\ epoch' = epoch
       ELSE pc' = "epoch" /\ epoch' = epoch + 1
    /\ UNCHANGED <<args, data, split, x_train, x_val, y_train, y_val, train_mean,
                   train_std, weights, scheduler, history, best_val_loss,
                   epochs_since_improvement, batch, epoch_train_loss, epoch_val_loss,
                   epoch_psnr, error, disk>>
    /\ UNCHANGED dvars

\* the final metadata written with a model configuration other than model.npy's
T_SaveFinal_Reconfigured ==
    /\ pc = "final"
    /\ disk' = [disk EXCEPT
                   !.final_pt = <<weights>>,
                   !.final_npy = <<[history EXCEPT !.model.num_layers = @ + 1]>>]
    /\ pc' = "done"
    /\ UNCHANGED <<args, data, split, x_train, x_val, y_train, y_val, train_mean,
                   train_std, weights, scheduler, history, best_val_loss,
                   epochs_since_improvement, epoch, batch, epoch_train_loss,
                   epoch_val_loss, epoch_psnr, error>>
    /\ UNCHANGED dvars

\* lines 243-248: saving final model, return 0
T_SaveFinal ==
    /\ pc = "final"
    /\ disk' = [disk EXCEPT !.final_pt = <<weights>>, !.final_npy = <<history>>]
    /\ pc' = "done"
    /\ UNCHANGED <<args, data, split, x_train, x_val, y_train, y_val, train_mean,
                   train_std, weights, scheduler, history, best_val_loss,
                   epochs_since_improvement, epoch, batch, epoch_train_loss,
                   epoch_val_loss, epoch_psnr, error>>
    /\ UNCHANGED dvars

(***************************************************************************)
(* denoise.py, main.                                                       *)
(***************************************************************************)
DIdle ==
    /\ d_pc = "idle"
    /\ d_args = [seed |-> <<>>, all |-> FALSE, batch_size |-> DenoiseBatchSize,
                 model |-> "best", dettype |-> "ramp"]
    /\ d_test_data = [noisy |-> <<>>, clean |-> <<>>]
    /\ d_params = [unset |-> TRUE]
    /\ d_split = [val |-> <<>>, train |-> <<>>]
    /\ d_val_dataset = [x |-> <<>>, y |-> <<>>]
    /\ d_weights = NaN
    /\ d_num = 0
    /\ d_fed = <<>>
    /\ d_preds = <<>>
    /\ denoised = <<>>
    /\ total_psnr_noisy = PZero
    /\ total_psnr_denoised = PZero
    /\ avg_psnr_noisy = PZero
    /\ avg_psnr_denoised = PZero
    /\ d_saved = <<>>
    /\ d_error = "none"
    /\ d_status = -1

\* the command lines of denoise.py the model runs
DenoiseArgs ==
    [seed : {<<>>} \cup {<<s>> : s \in 0..MaxSeed}, all : BOOLEAN,
     batch_size : {DenoiseBatchSize}, model : {"best", "final"}, dettype : DataKinds]

\* args.model and args.model.replace('.pt', '.npy')
WeightsFile(a) ==
    IF a.model = "best" THEN disk.best_pt ELSE disk.final_pt

MetadataFile(a) ==
    IF a.model = "best" THEN disk.best_npy ELSE disk.final_npy

\* the script is started on a model directory: one a finished run of train.py
\* left (a run of at most PipelineEpochs epochs), or one of another origin
D_Start ==
    /\ d_pc = "idle"
    /\ \/ pc = "off"
       \/ pc = "done" /\ args.epochs <= PipelineEpochs
    /\ d_args' \in DenoiseArgs
    /\ d_pc' = "load"
    /\ UNCHANGED <<d_test_data, d_params, d_split, d_val_dataset, d_weights, d_num,
                   d_fed, d_preds, denoised, total_psnr_noisy, total_psnr_denoised,
                   avg_psnr_noisy, avg_psnr_denoised, d_saved, d_error, d_status>>
    /\ UNCHANGED <<tvars, disk>>

\* lines 75-83: load the dataset, assert the shapes agree
D_LoadData ==
    /\ d_pc = "load"
    /\ LET loaded == LoadData(d_args.dettype)
       IN  /\ d_test_data' = loaded
           /\ IF Shape(loaded.noisy) = Shape(loaded.clean)
              THEN d_pc' = "params" /\ d_error' = d_error
              ELSE d_pc' = "failed" /\ d_error' = "AssertionError"
    /\ UNCHANGED <<d_args, d_params, d_split, d_val_dataset, d_weights, d_num, d_fed,
                   d_preds, denoised, total_psnr_noisy, total_psnr_denoised,
                   avg_psnr_noisy, avg_psnr_denoised, d_saved, d_status>>
    /\ UNCHANGED <<tvars, disk>>

\* lines 86-89: load the metadata, read train_mean and train_std
D_LoadParams ==
    /\ d_pc = "params"
    /\ IF MetadataFile(d_args) = NoFile
       THEN d_pc' = "failed" /\ d_error' = "FileNotFoundError" /\ d_params' = d_params
       ELSE LET params == MetadataFile(d_args)[1].model
            IN  /\ d_params' = params
                /\ IF {"train_mean", "train_std"} \subseteq DOMAIN params
                   THEN d_pc' = "seed" /\ d_error' = d_error
                   ELSE d_pc' = "failed" /\ d_error' = "KeyError"
    /\ UNCHANGED <<d_args, d_test_data, d_split, d_val_dataset, d_weights, d_num,
                   d_fed, d_preds, denoised, total_psnr_noisy, total_psnr_denoised,
                   avg_psnr_noisy, avg_psnr_denoised, d_saved, d_status>>
    /\ UNCHANGED <<tvars, disk>>

\* line 91: not args.seed, true of None and of 0
NoSeed(seed) ==
    seed = <<>> \/ seed = <<0>>

\* lines 91-96: the seed of the split
D_Seed ==
    /\ d_pc = "seed"
    /\ IF NoSeed(d_args.seed)
       THEN IF "train_seed" \in DOMAIN d_params
            THEN /\ d_args' = [d_args EXCEPT !.seed = <<d_params.train_seed>>]
                 /\ d_pc' = "dataset" /\ d_error' = d_error
            ELSE d_pc' = "failed" /\ d_error' = "KeyError" /\ d_args' = d_args
       ELSE d_pc' = "dataset" /\ d_error' = d_error /\ d_args' = d_args
    /\ UNCHANGED <<d_test_data, d_params, d_split, d_val_dataset, d_weights, d_num,
                   d_fed, d_preds, denoised, total_psnr_noisy, total_psnr_denoised,
                   avg_psnr_noisy, avg_psnr_denoised, d_saved, d_status>>
    /\ UNCHANGED <<tvars, disk>>

\* lines 99-103: the validation set of the seed, or the whole dataset
D_Dataset ==
    /\ d_pc = "dataset"
    /\ IF ~d_args.all
       THEN LET s == TrainTestSplit(Len(d_test_data.noisy), d_args.seed[1])
            IN  /\ d_split' = s
                /\ d_val_dataset' = [x |-> Select(d_test_data.noisy, s.val),
                                     y |-> Select(d_test_data.clean, s.val)]
       ELSE /\ d_split' = d_split
            /\ d_val_dataset' = [x |-> d_test_data.noisy, y |-> d_test_data.clean]
    /\ d_pc' = "create"
    /\ UNCHANGED <<d_args, d_test_data, d_params, d_weights, d_num, d_fed, d_preds,
                   denoised, total_psnr_noisy, total_psnr_denoised, avg_psnr_noisy,
                   avg_psnr_denoised, d_saved, d_error, d_status>>
    /\ UNCHANGED <<tvars, disk>>

\* every model name taken as supported
SupportedModel_Any(name) ==
    name = name

\* lines 112-120: the model names the script supports
SupportedModel(name) ==
    name \in {"DnCNN", "DnCNN-res"}

\* lines 112-123: create the model of the metadata's model_name
D_CreateModel ==
    /\ d_pc = "create"
    /\ IF "model_name" \notin DOMAIN d_params
       THEN d_pc' = "failed" /\ d_error' = "KeyError" /\ d_status' = d_status
       ELSE IF SupportedModel(d_params.model_name)
            THEN d_pc' = "weights" /\ d_error' = d_error /\ d_status' = d_status
            ELSE d_pc' = "done" /\ d_error' = d_error /\ d_status' = 1
    /\ UNCHANGED <<d_args, d_test_data, d_params, d_split, d_val_dataset, d_weights,
                   d_num, d_fed, d_preds, denoised, total_psnr_noisy,
                   total_psnr_denoised, avg_psnr_noisy, avg_psnr_denoised, d_saved>>
    /\ UNCHANGED <<tvars, disk>>

\* lines 126-136: print the model type, load the weights, reset the totals
D_LoadWeights ==
    /\ d_pc = "weights"
    /\ IF "model_type" \notin DOMAIN d_params
       THEN d_pc' = "failed" /\ d_error' = "KeyError" /\ d_weights' = d_weights
       ELSE IF WeightsFile(d_args) = NoFile
            THEN d_pc' = "failed" /\ d_error' = "FileNotFoundError" /\ d_weights' = d_weights
            ELSE d_pc' = "batch" /\ d_error' = d_error /\ d_weights' = WeightsFile(d_args)[1]
    /\ total_psnr_noisy' = PZero
    /\ total_psnr_denoised' = PZero
    /\ denoised' = <<>>
    /\ UNCHANGED <<d_args, d_test_data, d_params, d_split, d_val_dataset, d_num, d_fed,
                   d_preds, avg_psnr_noisy, avg_psnr_denoised, d_saved, d_status>>
    /\ UNCHANGED <<tvars, disk>>

\* len(val_loader)
DenoiseBatches ==
    NumBatches(Len(d_val_dataset.x), d_args.batch_size)

\* the two branches of lines 154-157 exchanged
Reconstruct_Swapped(model_type, noisy_spectra, preds) ==
    IF model_type = "Gen-spectrum" THEN TSub(noisy_spectra, preds) ELSE preds

\* lines 153-157: the denoised spectrum of the model type
Reconstruct(model_type, noisy_spectra, preds) ==
    IF model_type = "Gen-spectrum" THEN preds ELSE TSub(noisy_spectra, preds)

\* the batch of denoised spectra put in front of the list instead of extending it
D_Batch_Prepend ==
    /\ d_pc = "batch"
    /\ d_num < DenoiseBatches
    /\ LET num == d_num + 1
           noisy_spectra == Batch(d_val_dataset.x, num, d_args.batch_size)
           clean_spectra == ToFloat(Batch(d_val_dataset.y, num, d_args.batch_size))
           input == Standardize(noisy_spectra, d_params.train_mean, d_params.train_std)
           preds == Forward(d_weights, input)
           psnr_noisy == psnr_of_batch(clean_spectra, ToFloat(noisy_spectra))
           denoised_spectrum ==
               Reconstruct(d_params.model_type, ToFloat(noisy_spectra), preds)
           psnr_denoised == psnr_of_batch(clean_spectra, denoised_spectrum)
       IN  /\ d_num' = num
           /\ d_fed' = Append(d_fed, input)
           /\ d_preds' = Append(d_preds, preds)
           /\ denoised' = denoised_spectrum \o denoised
           /\ total_psnr_noisy' = PAdd(total_psnr_noisy, psnr_noisy)
           /\ total_psnr_denoised' = PAdd(total_psnr_denoised, psnr_denoised)
    /\ UNCHANGED <<d_pc, d_args, d_test_data, d_params, d_split, d_val_dataset,
                   d_weights, avg_psnr_noisy, avg_psnr_denoised, d_saved, d_error,
                   d_status>>
    /\ UNCHANGED <<tvars, disk>>

\* lines 138-167: one batch: predictions on the standardized inputs, PSNR of the
\* noisy and of the denoised spectra
D_Batch ==
    /\ d_pc = "batch"
    /\ d_num < DenoiseBatches
    /\ LET num == d_num + 1
           noisy_spectra == Batch(d_val_dataset.x, num, d_args.batch_size)
           clean_spectra == ToFloat(Batch(d_val_dataset.y, num, d_args.batch_size))
           input == Standardize(noisy_spectra, d_params.train_mean, d_params.train_std)
           preds == Forward(d_weights, input)
           psnr_noisy == psnr_of_batch(clean_spectra, ToFloat(noisy_spectra))
           denoised_spectrum ==
               Reconstruct(d_params.model_type, ToFloat(noisy_spectra), preds)
           psnr_denoised == psnr_of_batch(clean_spectra, denoised_spectrum)
       IN  /\ d_num' = num
           /\ d_fed' = Append(d_fed, input)
           /\ d_preds' = Append(d_preds, preds)
           /\ denoised' = denoised \o denoised_spectrum
           /\ total_psnr_noisy' = PAdd(total_psnr_noisy, psnr_noisy)
           /\ total_psnr_denoised' = PAdd(total_psnr_denoised, psnr_denoised)
    /\ UNCHANGED <<d_pc, d_args, d_test_data, d_params, d_split, d_val_dataset,
                   d_weights, avg_psnr_noisy, avg_psnr_denoised, d_saved, d_error,
                   d_status>>
    /\ UNCHANGED <<tvars, disk>>

\* lines 170-176: save the denoised data, only for the entire dataset
D_Save ==
    /\ d_pc = "batch"
    /\ d_num >= DenoiseBatches
    /\ IF d_args.all
       THEN IF Len(d_test_data.noisy) = Len(denoised)
            THEN /\ d_saved' = Append(d_saved, [d_test_data EXCEPT !.noisy = denoised])
                 /\ d_pc' = "report" /\ d_error' = d_error
            ELSE d_pc' = "failed" /\ d_error' = "AssertionError" /\ d_saved' = d_saved
       ELSE d_pc' = "report" /\ d_error' = d_error /\ d_saved' = d_saved
    /\ UNCHANGED <<d_args, d_test_data, d_params, d_split, d_val_dataset, d_weights,
                   d_num, d_fed, d_preds, denoised, total_psnr_noisy,
                   total_psnr_denoised, avg_psnr_noisy, avg_psnr_denoised, d_status>>
    /\ UNCHANGED <<tvars, disk>>

\* lines 178-184: the averages over the batches, return 0
D_Report ==
    /\ d_pc = "report"
    /\ avg_psnr_noisy' = PDivInt(total_psnr_noisy, DenoiseBatches)
    /\ avg_psnr_denoised' = PDivInt(total_psnr_denoised, DenoiseBatches)
    /\ d_status' = 0
    /\ d_pc' = "done"
    /\ UNCHANGED <<d_args, d_test_data, d_params, d_split, d_val_dataset, d_weights,
                   d_num, d_fed, d_preds, denoised, total_psnr_noisy,
                   total_psnr_denoised, d_saved, d_error>>
    /\ UNCHANGED <<tvars, disk>>

DNext ==
    \/ D_Start
    \/ D_LoadData
    \/ D_LoadParams
    \/ D_Seed
    \/ D_Dataset
    \/ D_CreateModel
    \/ D_LoadWeights
    \/ D_Batch
    \/ D_Save
    \/ D_Report

TNext ==
    \/ T_LoadData
    \/ T_Split
    \/ T_Fit
    \/ T_Standardize
    \/ T_CreateModel
    \/ T_SaveParams
    \/ T_InitLoop
    \/ T_EpochStart
    \/ T_TrainBatch
    \/ T_StartValidation
    \/ T_ValBatch
    \/ T_EpochSummary
    \/ T_SchedulerStep
    \/ T_AppendHistory
    \/ T_SaveIfBest
    \/ T_EarlyStop
    \/ T_SaveFinal

vars ==
    <<tvars, disk, dvars>>

(***************************************************************************)
(* The trainer alone: one run of train.py on an empty model directory.   *)
(***************************************************************************)
Init ==
    /\ TInit
    /\ disk = EmptyDisk
    /\ DIdle

Next ==
    TNext

Spec ==
    Init /\ [][Next]_vars

(***************************************************************************)
(* The pipeline: denoise.py run on a model directory.  The directory is   *)
(* either the one a run of train.py leaves, or a directory of another     *)
(* origin holding best_model.pt with a metadata artifact that has every   *)
(* field of the checkpoint: what train.py writes, and the seed, the model *)
(* name and the model type.                                               *)
(***************************************************************************)
ModelNames ==
    {"DnCNN", "DnCNN-res", "UNet"}

ModelTypes ==
    {"Gen-spectrum", "Res-spectrum", "Raw-spectrum"}

FullParams(a, name, type) ==
    LET loaded == LoadData(a.det_type)
        s == TrainTestSplit(Len(loaded.noisy), a.seed)
        xt == Select(loaded.noisy, s.train)
    IN  model_params(a, Mean(xt), Std(xt))
            @@ [train_seed |-> a.seed, model_name |-> name, model_type |-> type]

OtherSources ==
    {a \in TrainArgs : a.epochs = 0 /\ a.patience = 0 /\ a.det_type # "mismatch"}

OtherDisks ==
    {[EmptyDisk EXCEPT
         !.best_pt = <<w>>,
         !.best_npy = <<[model |-> FullParams(a, name, type),
                         train |-> <<>>, val |-> <<>>, psnr |-> <<>>]>>] :
       a \in OtherSources, w \in Weights, name \in ModelNames, type \in ModelTypes}

TOff ==
    /\ pc = "off"
    /\ args = CHOOSE a \in OtherSources : a.seed = 0 /\ a.det_type = "ramp"
    /\ data = [noisy |-> <<>>, clean |-> <<>>]
    /\ split = [val |-> <<>>, train |-> <<>>]
    /\ x_train = <<>> /\ x_val = <<>> /\ y_train = <<>> /\ y_val = <<>>
    /\ train_mean = NaN
    /\ train_std = [sqrt |-> NaN]
    /\ weights = NaN
    /\ scheduler = [best |-> Inf(1), num_bad_epochs |-> 0, reductions |-> 0]
    /\ history = [model |-> [unset |-> TRUE], train |-> <<>>, val |-> <<>>, psnr |-> <<>>]
    /\ best_val_loss = NaN
    /\ epochs_since_improvement = 0
    /\ epoch = 0
    /\ batch = 1
    /\ epoch_train_loss = FInt(0)
    /\ epoch_val_loss = FInt(0)
    /\ epoch_psnr = PZero
    /\ error = "none"

PipelineInit ==
    /\ \/ TInit /\ disk = EmptyDisk
       \/ TOff /\ disk \in OtherDisks
    /\ DIdle

PipelineNext ==
    \/ TNext
    \/ DNext

PipelineSpec ==
    PipelineInit /\ [][PipelineNext]_vars

(***************************************************************************)
(* Properties.                                                             *)
(***************************************************************************)
\* the metadata fields denoise.py reads (lines 88-126)
MetadataFields ==
    {"train_mean", "train_std", "train_seed", "model_name", "model_type",
     "num_channels", "num_layers", "kernel_size", "stride", "num_filters"}

MetadataFiles ==
    {"model_npy", "best_npy", "final_npy"}

\* C1: every metadata artifact train.py writes (model.npy, best_model.npy,
\* final_model.npy) holds every field denoise.py reads, and a run of denoise.py on
\* a checkpoint of a finished training run never fails on a missing field.
C1_MetadataComplete ==
    /\ pc # "off" =>
          \A f \in MetadataFiles :
             disk[f] # NoFile => MetadataFields \subseteq DOMAIN disk[f][1].model
    /\ pc = "done" => d_error # "KeyError"

\* C2: whenever denoise.py splits (the whole dataset is not requested), the seed
\* it hands to train_test_split is the seed stored in the metadata it loaded,
\* whatever --seed the caller passes; on a checkpoint of a finished training run
\* that seed is the run's, so on a dataset of the size of the training run's the
\* validation indices are those of the training run.
C2_StoredSeedSplit ==
    d_split.val # <<>> =>
       /\ "train_seed" \in DOMAIN d_params
       /\ d_args.seed = <<d_params.train_seed>>
       /\ d_split = TrainTestSplit(Len(d_test_data.noisy), d_params.train_seed)
       /\ pc = "done" =>
             /\ d_args.seed = <<args.seed>>
             /\ Len(d_test_data.noisy) = Len(data.noisy) => d_split.val = split.val

\* the last epoch (counted from 1) whose validation loss was strictly lower than
\* the running best the loop keeps, 0 if there is none
RECURSIVE LastImprovementFrom(_, _, _, _)
LastImprovementFrom(vals, i, best, k) ==
    IF i > Len(vals) THEN k
    ELSE IF FLt(vals[i], best)
         THEN LastImprovementFrom(vals, i + 1, vals[i], i)
         ELSE LastImprovementFrom(vals, i + 1, best, k)

LastImprovement(vals) ==
    LastImprovementFrom(vals, 1, FInt(BestValLossInit), 0)

CompletedEpochs ==
    IF epochs_since_improvement > args.patience THEN epoch + 1 ELSE args.epochs

\* C4: main ends only by the shape assertion (before any training) or after
\* writing the final checkpoint: when it returns, final_model.pt holds the current
\* weights and final_model.npy the history, with one record per completed epoch,
\* after early stopping as after the last epoch, also with --epochs 0.
C4_FinalOnEveryExit ==
    /\ pc = "failed" =>
          /\ error = "AssertionError"
          /\ split.train = <<>>
          /\ disk = EmptyDisk
    /\ pc = "done" =>
          /\ disk.final_pt = <<weights>>
          /\ disk.final_npy = <<history>>
          /\ Len(history.train) = CompletedEpochs
          /\ Len(history.val) = CompletedEpochs
          /\ Len(history.psnr) = CompletedEpochs

C4_Witness ==
    /\ pc = "done"
    /\ epochs_since_improvement > args.patience
    /\ disk.best_pt # NoFile
    /\ disk.best_pt # disk.final_pt
    /\ Len(disk.final_npy[1].val) = 2

\* C5: the step at line 220 overwrites best_model.pt and best_model.npy exactly
\* when the epoch's validation loss is strictly lower than best_val_loss, and then
\* best_val_loss becomes that loss and epochs_since_improvement 0; otherwise
\* (also on a tie) epochs_since_improvement grows by 1 and best_val_loss and the
\* best checkpoint stay.  No other step touches the best checkpoint, and
\* best_val_loss never increases.
C5_CheckpointDecision ==
    [][/\ pc = "save_best" =>
             IF FLt(epoch_val_loss, best_val_loss)
             THEN /\ best_val_loss' = epoch_val_loss
                  /\ epochs_since_improvement' = 0
                  /\ disk'.best_pt = <<weights>>
                  /\ disk'.best_npy = <<history>>
             ELSE /\ epochs_since_improvement' = epochs_since_improvement + 1
                  /\ best_val_loss' = best_val_loss
                  /\ disk'.best_pt = disk.best_pt
                  /\ disk'.best_npy = disk.best_npy
       /\ pc # "save_best" =>
             /\ disk'.best_pt = disk.best_pt
             /\ disk'.best_npy = disk.best_npy
       /\ ~FLt(best_val_loss, best_val_loss')]_vars

C5_Witness ==
    /\ pc = "early_stop"
    /\ epochs_since_improvement = 1
    /\ epoch_val_loss = best_val_loss
    /\ disk.best_npy # NoFile
    /\ disk.best_npy # <<history>>

\* the model types denoise.py names (lines 154-157)
RecognizedTypes ==
    {"Gen-spectrum", "Res-spectrum"}

\* the denoised spectra of batch b by the model type: the predictions, or the
\* noisy spectra minus the predictions
ExpectedDenoised(b) ==
    IF d_params.model_type = "Gen-spectrum"
    THEN d_preds[b]
    ELSE TSub(ToFloat(Batch(d_val_dataset.x, b, d_args.batch_size)), d_preds[b])

RECURSIVE ExpectedCollection(_)
ExpectedCollection(n) ==
    IF n = 0 THEN <<>> ELSE ExpectedCollection(n - 1) \o ExpectedDenoised(n)

RECURSIVE ExpectedPsnr(_)
ExpectedPsnr(n) ==
    IF n = 0
    THEN PZero
    ELSE PAdd(ExpectedPsnr(n - 1),
              psnr_of_batch(ToFloat(Batch(d_val_dataset.y, n, d_args.batch_size)),
                            ExpectedDenoised(n)))

\* C6: for the model type Gen-spectrum the denoised spectrum of every example is
\* the model output, for Res-spectrum it is the noisy input (not standardized)
\* minus the model output; the PSNR of the denoised spectra and the dataset that
\* is saved are both computed from these spectra.
C6_Reconstruction ==
    (/\ d_pc \in {"batch", "report", "done"}
     /\ "model_type" \in DOMAIN d_params
     /\ d_params.model_type \in RecognizedTypes) =>
       /\ Len(d_preds) = d_num
       /\ denoised = ExpectedCollection(d_num)
       /\ total_psnr_denoised = ExpectedPsnr(d_num)
       /\ \A i \in 1..Len(d_saved) :
             /\ d_saved[i].noisy = ExpectedCollection(DenoiseBatches)
             /\ d_saved[i].clean = d_test_data.clean
       /\ d_pc = "done" /\ d_status = 0 =>
             avg_psnr_denoised = PDivInt(ExpectedPsnr(DenoiseBatches), DenoiseBatches)

C6_Witness ==
    /\ d_pc = "done"
    /\ d_status = 0
    /\ d_args.all
    /\ d_params.model_type = "Res-spectrum"
    /\ d_weights = FInt(1)
    /\ Len(d_saved) = 1
    /\ Len(denoised) = NumExamples
    /\ \E b \in 1..d_num : denoised[b] # d_preds[b][1]

\* C7: a loss that is not finite aborts the run: the run is failed as soon as the
\* loss summed over the batches of an epoch is nan or infinite, so no later step
\* of the epoch (scheduler, history, checkpoint decision, early-stopping count)
\* and no later epoch runs with it.
C7_NonFiniteAborts ==
    (~IsFinite(epoch_train_loss) \/ ~IsFinite(epoch_val_loss)) => pc = "failed"

\* the steps of train.py up to the standardization of line 94
BeforeStandardized ==
    {"off", "load", "split", "fit", "standardize", "failed"}

\* the pair in use is the one fitted on the training part, in train.py, in the
\* metadata files and in denoise.py
C8_FittedAndApplied ==
    /\ pc \notin {"off", "load", "split", "fit", "failed"} =>
          /\ train_mean = Mean(Select(data.noisy, split.train))
          /\ train_std = Std(Select(data.noisy, split.train))
    /\ pc \notin BeforeStandardized =>
          /\ x_train = Standardize(Select(data.noisy, split.train), train_mean, train_std)
          /\ x_val = Standardize(Select(data.noisy, split.val), train_mean, train_std)
    /\ pc # "off" =>
          \A f \in MetadataFiles :
             disk[f] # NoFile =>
                /\ disk[f][1].model.train_mean = train_mean
                /\ disk[f][1].model.train_std = train_std
    /\ \A b \in 1..Len(d_fed) :
          d_fed[b] = Standardize(Batch(d_val_dataset.x, b, d_args.batch_size),
                                 MetadataFile(d_args)[1].model.train_mean,
                                 MetadataFile(d_args)[1].model.train_std)

\* C8: train_mean and train_std are fitted once, from the noisy spectra of the
\* training part of the split only; the same pair standardizes x_train and
\* x_val and is stored in every metadata file; denoise.py standardizes every
\* batch with the pair of the metadata file it loaded.
C8_StandardizationOnce ==
    /\ []C8_FittedAndApplied
    /\ [][(train_mean' # train_mean \/ train_std' # train_std) => pc = "fit"]_vars

C8_Witness ==
    /\ pc = "done"
    /\ Len(history.val) >= 1
    /\ split.val # <<>>
    /\ train_mean # Mean(data.noisy)
    /\ disk.best_npy # NoFile
    /\ disk.final_npy[1].model.train_std = Std(Select(data.noisy, split.train))

\* C9: a standard deviation of 0 fitted on the training inputs fails the run
\* before anything is standardized, trained or written, so a run past the
\* standardization has std > 0; denoise.py feeds the model no batch when the std
\* it loaded is 0.
C9_ZeroStdRejected ==
    /\ pc \notin BeforeStandardized => ~StdIsZero(train_std)
    /\ pc = "failed" => (error = "InvalidParameterError" <=> StdIsZero(train_std))
    /\ d_fed # <<>> => ~StdIsZero(d_params.train_std)

\* C10: a model type in the metadata that is neither Gen-spectrum nor
\* Res-spectrum gives no denoised spectrum, no PSNR and no saved dataset, and the
\* run of denoise.py does not return 0.
C10_UnknownTypeRejected ==
    ("model_type" \in DOMAIN d_params /\ d_params.model_type \notin RecognizedTypes) =>
       /\ denoised = <<>>
       /\ total_psnr_denoised = PZero
       /\ d_saved = <<>>
       /\ d_status # 0
       /\ d_pc = "failed" /\ d_preds # <<>> => d_error = "UnsupportedModelType"

\* the noisy spectra of the validation part as loaded, not standardized
RawValBatch(b) ==
    ToFloat(Batch(Select(data.noisy, split.val), b, args.batch_size))

\* the PSNR of the first n validation batches of the epoch, scored on the
\* spectra reconstructed for the model type as lines 154-157 of denoise.py do
RECURSIVE TrainPsnrByType(_, _)
TrainPsnrByType(type, n) ==
    IF n = 0
    THEN PZero
    ELSE PAdd(TrainPsnrByType(type, n - 1),
              psnr_of_batch(ToFloat(Batch(y_val, n, args.batch_size)),
                            Reconstruct(type, RawValBatch(n),
                                        Forward(weights, Batch(x_val, n, args.batch_size)))))

\* C11: for every model type, the validation PSNR train.py accumulates over the
\* batches of an epoch is the PSNR of the spectra denoise.py scores for a
\* checkpoint of that type: the model output for Gen-spectrum, the noisy input
\* minus the model output for Res-spectrum.
C11_PsnrByModelType ==
    pc = "val_batch" =>
       \A type \in RecognizedTypes : epoch_psnr = TrainPsnrByType(type, batch - 1)

IsPrefix(s, t) ==
    Len(s) <= Len(t) /\ SubSeq(t, 1, Len(s)) = s

\* the epochs whose record has been appended, by the position in main
EpochsRecorded ==
    CASE pc \in {"save_best", "early_stop"} -> epoch + 1
      [] pc \in {"final", "done"} -> CompletedEpochs
      [] OTHER -> epoch

HistoryPrefix(h, g) ==
    /\ IsPrefix(h.train, g.train)
    /\ IsPrefix(h.val, g.val)
    /\ IsPrefix(h.psnr, g.psnr)

\* the three sequences have one entry per recorded epoch; best_model.npy ends
\* with the epoch of best_val_loss and is a prefix of the history
C12_HistoryShape ==
    /\ Len(history.train) = EpochsRecorded
    /\ Len(history.val) = EpochsRecorded
    /\ Len(history.psnr) = EpochsRecorded
    /\ disk.best_npy # NoFile =>
          LET h == disk.best_npy[1]
          IN  /\ Len(h.val) >= 1
              /\ Len(h.train) = Len(h.val)
              /\ Len(h.psnr) = Len(h.val)
              /\ h.val[Len(h.val)] = best_val_loss
              /\ HistoryPrefix(h, history)
              /\ disk.final_npy # NoFile => HistoryPrefix(h, disk.final_npy[1])

\* C12: the history is append-only with one record per completed epoch: the
\* train, val and psnr sequences have as many entries as epochs were recorded,
\* every step keeps the earlier entries and adds at most one; best_model.npy ends
\* with the record of the epoch of best_val_loss and is a prefix of final_model.npy.
C12_HistoryAppendOnly ==
    /\ []C12_HistoryShape
    /\ [][/\ HistoryPrefix(history, history')
          /\ Len(history'.val) <= Len(history.val) + 1]_vars

C12_Witness ==
    /\ pc = "done"
    /\ disk.best_npy # NoFile
    /\ Len(disk.best_npy[1].val) = 2
    /\ Len(disk.final_npy[1].val) = 3
    /\ disk.final_npy[1].val[1] # disk.final_npy[1].val[2]

\* every metadata file holds the model part model.npy was written with, which is
\* the model_params of the run
C13_SameModelPart ==
    \A f \in MetadataFiles :
       disk[f] # NoFile =>
          /\ disk.model_npy # NoFile
          /\ disk[f][1].model = disk.model_npy[1].model
          /\ disk[f][1].model = model_params(args, train_mean, train_std)
          /\ DOMAIN disk[f][1] = {"model", "train", "val", "psnr"}

\* C13: the model part of the metadata (configuration, standardization
\* parameters) is fixed when model.npy is written and never changes: model.npy is
\* not rewritten, the model part in memory stays as written, and best_model.npy
\* and final_model.npy hold the same model part; they differ in the history only.
C13_MetadataFixed ==
    /\ []C13_SameModelPart
    /\ [][/\ disk.model_npy # NoFile => disk'.model_npy = disk.model_npy
          /\ "train_mean" \in DOMAIN history.model => history'.model = history.model]_vars

C13_Witness ==
    /\ pc = "done"
    /\ disk.best_npy # NoFile
    /\ disk.best_npy # disk.final_npy
    /\ disk.best_npy # disk.model_npy
    /\ disk.final_npy[1].model = disk.model_npy[1].model
    /\ disk.best_npy[1].model = disk.model_npy[1].model

\* the least of the first n validation losses (finite values)
RECURSIVE MinVal(_, _)
MinVal(vals, n) ==
    IF n = 1
    THEN vals[1]
    ELSE LET m == MinVal(vals, n - 1)
         IN  IF FLt(vals[n], m) THEN vals[n] ELSE m

\* C14: best_val_loss starts above every finite loss, so the first epoch counts
\* as an improvement whatever its finite validation loss is: after epoch 1
\* best_model exists, best_val_loss is epoch 1's validation loss and
\* epochs_since_improvement is 0; after any n >= 1 epochs with finite validation
\* losses best_val_loss is the least validation loss of the history.
C14_FirstEpochImproves ==
    (/\ pc = "early_stop"
     /\ \A i \in 1..Len(history.val) : IsFinite(history.val[i])) =>
       /\ disk.best_pt # NoFile
       /\ disk.best_npy # NoFile
       /\ epoch = 0 => /\ best_val_loss = history.val[1]
                       /\ epochs_since_improvement = 0
       /\ best_val_loss = MinVal(history.val, Len(history.val))

\* denoise.py has denoised no batch, scored nothing and saved nothing
NothingDenoised ==
    /\ d_num = 0
    /\ d_fed = <<>>
    /\ d_preds = <<>>
    /\ denoised = <<>>
    /\ total_psnr_noisy = PZero
    /\ total_psnr_denoised = PZero
    /\ avg_psnr_noisy = PZero
    /\ avg_psnr_denoised = PZero
    /\ d_saved = <<>>

\* C15: a model name in the metadata that denoise.py does not support ends its
\* run with status 1 before any weights are loaded, any batch is denoised, any
\* PSNR is computed or any dataset is saved; a mismatch between the shapes of
\* the noisy and the clean spectra ends train.py and denoise.py with the
\* assertion, before the split, before any model call and before any file is
\* written.
C15_EagerConfigErrors ==
    /\ (/\ "model_name" \in DOMAIN d_params
        /\ d_params.model_name \notin {"DnCNN", "DnCNN-res"}) =>
          /\ NothingDenoised
          /\ d_weights = NaN
          /\ d_status \in {-1, 1}
          /\ d_pc \in {"seed", "dataset", "create", "done", "failed"}
          /\ d_pc = "done" => d_status = 1
          /\ d_pc = "failed" => d_error = "KeyError"
    /\ Shape(data.noisy) # Shape(data.clean) =>
          /\ pc = "failed"
          /\ error = "AssertionError"
          /\ split = [val |-> <<>>, train |-> <<>>]
          /\ x_train = <<>> /\ x_val = <<>>
          /\ weights = NaN
          /\ history.train = <<>> /\ history.val = <<>>
          /\ disk = EmptyDisk
    /\ Shape(d_test_data.noisy) # Shape(d_test_data.clean) =>
          /\ d_pc = "failed"
          /\ d_error = "AssertionError"
          /\ d_split = [val |-> <<>>, train |-> <<>>]
          /\ d_val_dataset = [x |-> <<>>, y |-> <<>>]
          /\ d_weights = NaN
          /\ NothingDenoised

C15_Witness ==
    /\ d_pc = "done"
    /\ d_status = 1
    /\ d_params.model_name = "UNet"
    /\ d_args.all
    /\ Len(d_val_dataset.x) = NumExamples
    /\ NothingDenoised

\* the denoised spectrum of example i of the dataset denoise.py runs on
DenoisedOf(i) ==
    LET noisy == <<d_val_dataset.x[i]>>
        input == Standardize(noisy, d_params.train_mean, d_params.train_std)
    IN  Reconstruct(d_params.model_type, ToFloat(noisy), Forward(d_weights, input))[1]

C17_Bounds ==
    /\ epoch <= args.epochs
    /\ EpochsRecorded <= args.epochs
    /\ Len(history.train) <= args.epochs
    /\ Len(history.val) <= args.epochs
    /\ Len(history.psnr) <= args.epochs
    /\ pc \in {"train_batch", "val_batch", "scheduler", "append", "save_best"} =>
          /\ epoch < args.epochs
          /\ epochs_since_improvement <= args.patience
    /\ epochs_since_improvement <= args.patience + 1

\* the steps of one epoch are at most the batches of both loaders and the six
\* steps after them; the loaders have at most one batch per example
StepsPerEpoch ==
    2 * NumExamples + 8

\* a bound on the steps main has left, by its position
StepsLeft ==
    LET inEpoch(o) == 2 + (args.epochs - epoch) * StepsPerEpoch - o
        beforeLoop(k) == 3 + args.epochs * StepsPerEpoch + k
    IN  CASE pc = "load" -> beforeLoop(6)
          [] pc = "split" -> beforeLoop(5)
          [] pc = "fit" -> beforeLoop(4)
          [] pc = "standardize" -> beforeLoop(3)
          [] pc = "create" -> beforeLoop(2)
          [] pc = "save_params" -> beforeLoop(1)
          [] pc = "init_loop" -> beforeLoop(0)
          [] pc = "epoch" -> inEpoch(0)
          [] pc = "train_batch" -> inEpoch(batch)
          [] pc = "val_batch" -> inEpoch(NumExamples + 1 + batch)
          [] pc = "scheduler" -> inEpoch(2 * NumExamples + 3)
          [] pc = "append" -> inEpoch(2 * NumExamples + 4)
          [] pc = "save_best" -> inEpoch(2 * NumExamples + 5)
          [] pc = "early_stop" -> inEpoch(2 * NumExamples + 6)
          [] pc = "final" -> 1
          [] OTHER -> 0

\* main has a next step: the guards of the steps at its position leave no gap
HasNextStep ==
    \/ pc \in {"load", "split", "fit", "standardize", "create", "save_params",
               "init_loop", "epoch", "scheduler", "append", "save_best",
               "early_stop", "final"}
    \/ pc = "train_batch" /\ (batch <= TrainBatches \/ batch > TrainBatches)
    \/ pc = "val_batch" /\ (batch <= ValBatches \/ batch > ValBatches)

\* C17: every run of train.py ends, after at most args.epochs epochs: the
\* epochs completed and the length of the history never exceed args.epochs,
\* every epoch starts with epochs_since_improvement <= patience,
\* epochs_since_improvement never exceeds patience + 1, and until the run has
\* ended main has a next step and every step lowers the bound on the steps left.
C17_Terminates ==
    /\ []C17_Bounds
    /\ [](StepsLeft >= 0)
    /\ [](pc \in {"done", "failed"} \/ HasNextStep)
    /\ [][StepsLeft' < StepsLeft]_<<pc, batch>>

C17_Witness ==
    /\ pc = "done"
    /\ args.epochs = MaxEpochs
    /\ Len(history.val) = args.epochs
    /\ epochs_since_improvement = args.patience + 1
    /\ args.patience = MaxPatience

\* the steps of an epoch follow one another in the order of lines 154-231, and
\* the scheduler takes one step per epoch, with the epoch's mean validation loss
\* and the patience args.patience // 2
EpochOrder ==
    /\ (pc = "train_batch" /\ pc' # pc) => (batch > TrainBatches /\ pc' = "val_batch")
    /\ (pc = "val_batch" /\ pc' # pc) => (batch > ValBatches /\ pc' = "scheduler")
    /\ pc = "scheduler" =>
          /\ pc' = "append"
          /\ scheduler' = SchedulerStep(scheduler, epoch_val_loss, args.patience \div 2)
    /\ scheduler' # scheduler => pc \in {"init_loop", "scheduler"}
    /\ pc = "append" => (pc' = "save_best" /\ Len(history'.val) = Len(history.val) + 1)
    /\ history' # history => pc \in {"save_params", "append"}
    /\ pc = "save_best" => pc' = "early_stop"
    /\ pc = "early_stop" => pc' \in {"epoch", "final"}

\* C18: within an epoch the training batches come first, then the validation
\* batches, then one step of the scheduler with the epoch's mean validation
\* loss, then the history append, the checkpoint decision and the early-stopping
\* test; the scheduler's patience is args.patience // 2, so when the loop stops
\* early the learning rate has been reduced at least once.
C18_OrderAndReduction ==
    [][/\ EpochOrder
       /\ (pc = "early_stop" /\ pc' = "final") => scheduler.reductions >= 1]_vars

====
